---- MODULE Spec2Model ----
(***************************************************************************)
(* Sr-90 Bremsstrahlung experiment: the particle simulation and dose       *)
(* engine, in its two front-ends.                                          *)
(*   impl = "js"    : simulator.js (stand-alone page, global state)        *)
(*   impl = "react" : the React component (src/unnamed/part_000)           *)
(*                                                                         *)
(* Lengths are integers in sub-pixel units: one canvas pixel is Resolution *)
(* units, so a coordinate c of the source is the integer c * Resolution    *)
(* and real-valued random draws are sampled on that grid.                  *)
(* Dose values are integers: micro-uSv/h inside the computation and        *)
(* thousandths of a uSv/h for the displayed 3-decimal string               *)
(* ("0.150" is 150).                                                       *)
(***************************************************************************)
EXTENDS Integers, Sequences, FiniteSets

VARIABLES
    impl,             \* which front-end runs
    distanceCm,       \* detector distance (slider), cm
    sourceOpen,       \* source shutter
    showHeatmap,      \* view mode
    counts,           \* counts (simulator.js) / countsRef.current (React)
    countsShown,      \* countsEl.textContent / the React counts state
    doseRateDisplay,  \* doseRateDisplay / doseRate, in thousandths
    particles,        \* particles / particlesRef.current
    rendered,         \* what the last render pass drew
    frameQueue,       \* pending requestAnimationFrame callbacks
    animationId,      \* animationId / requestRef.current (0: undefined)
    timers,           \* active setInterval timers
    doseInterval,     \* doseInterval / interval of the current effect
    nextHandle,       \* next handle the browser hands out
    ticks,            \* number of ticks run so far
    bgSpawned,        \* number of background photons spawned so far
    inputs,           \* number of control inputs so far
    tornDown,         \* the teardown signal has arrived
    lastAction,       \* the handler that ran last
    heatmapPass,      \* drawHeatmap: the loop position and the last fill
    explanation       \* explainExperiment: the call and how it settled

vars == << impl, distanceCm, sourceOpen, showHeatmap, counts, countsShown,
           doseRateDisplay, particles, rendered, frameQueue, animationId,
           timers, doseInterval, nextHandle, ticks, bgSpawned, inputs,
           tornDown, lastAction, heatmapPass, explanation >>

-----------------------------------------------------------------------------
(* Bounds of the model *)

Resolution == 2      \* sub-pixel units per pixel
MaxTicks == 15       \* ticks explored
MaxParticles == 3    \* store size explored
MaxBackground == 1   \* background photons spawned in a run
MaxInputs == 3       \* control inputs in a run
LateTicks == 395     \* frames already run when a long run is picked up

-----------------------------------------------------------------------------
(* Constants of the program *)

CANVAS_WIDTH == 800
CANVAS_HEIGHT == 400
CENTER_Y == CANVAS_HEIGHT \div 2
PX_PER_CM == 4
SOURCE_X == 80
SOURCE_TO_PMMA_CM == 10
PMMA_X == SOURCE_X + SOURCE_TO_PMMA_CM * PX_PER_CM
PMMA_VISUAL_THICKNESS == 10
PMMA_HEIGHT == 150
DETECTOR_WIDTH == 30
DETECTOR_HEIGHT == 60

K_CONST == 170       \* 0.17 m^2 uSv/h, in thousandths
MU_CONST == 2        \* 0.02 1/m, in hundredths
B_CONST == 150       \* 0.15 uSv/h, in thousandths

InitialDistanceCm == 80
InitialDoseRate == 150     \* "0.150"
BetaLife == 200
BackgroundLife == 400
PhotonLife == 400
TrailLength == 10
BetasPerTick == 3
PhotonSpeed == 4
BoundsMargin == 20
EdgeOffset == 10
SliderMax == 150

U(n) == n * Resolution

Impls == {"js", "react"}

-----------------------------------------------------------------------------
(* Random draws, sampled *)

\* spawnParticle: vx = 6 + random*2 in [6,8), vy = (random-0.5)*2 in [-1,1);
\* the draw random = 0 twice: the slowest beta, reaching x = PMMA_X exactly
BetaDraws == { [vx |-> U(6), vy |-> -U(1)] }

\* the transition: angle = (random-0.5)*(PI/1.5) in [-60deg, 60deg);
\* cos = 1, sin = 0 at 0 deg; cos = 1/2, sin = -0.866 at -60 deg
PhotonDraws ==
    { [cos2 |-> 2, sin8 |-> 0],
      [cos2 |-> 1, sin8 |-> -7] }

\* spawnBackgroundParticle: edge = floor(random*4), along = random * side,
\* fwd = random*speed in [0,4), lat = (random-0.5)*speed in (-2,2)
BackgroundDraws ==
    { [edge |-> 1, along |-> U(CENTER_Y), fwd |-> U(4) - 1, lat |-> 0],
      [edge |-> 0, along |-> 0, fwd |-> 0, lat |-> -(U(2) - 1)] }

\* noise = 1 + (random*0.04 - 0.02) in [0.98, 1.02), in 1/10000
NoiseDraws == {9800, 10199}

\* slider positions tried
DistanceInputs == {0, SliderMax}

-----------------------------------------------------------------------------
(* DoseModel *)

\* Math.exp(-MU_CONST * d) for d = cm/100, in millionths: the Taylor
\* polynomial of degree 3 of e^(-x), x = MU_CONST * cm * 100 millionths
ExpNeg(cm) ==
    LET x == MU_CONST * cm * 100
        x2 == (x * x) \div 2000000
    IN  1000000 - x + x2 - (x2 * x) \div 3000000

Max(a, b) == IF a >= b THEN a ELSE b

\* variant of the clamp that offsets the distance by 1 cm instead
EffectiveDistance_Offset(cm) == cm + 1

\* d = Math.max(distanceCm, 1) / 100, kept in cm
EffectiveDistance(cm) == Max(cm, 1)

\* variant of the source term that multiplies by geometricLoss
SourceContribution_Multiplies(dcm) ==
    ((ExpNeg(dcm) \div 1000) * (K_CONST \div 10) * dcm * dcm) \div 1000

\* sourceContribution = (K_CONST * attenuation) / geometricLoss, in
\* micro-uSv/h
SourceContribution(dcm) ==
    LET attenuation == ExpNeg(dcm)
        geometricLoss == dcm * dcm
    IN  (K_CONST * 10 * attenuation) \div geometricLoss

\* variant of the dose that adds the source term whatever the shutter
PureDose_IgnoresShutter(cm, open) ==
    B_CONST * 1000 + SourceContribution(EffectiveDistance(cm))

\* currentDose before the noise, in micro-uSv/h
PureDose(cm, open) ==
    IF open
    THEN B_CONST * 1000 + SourceContribution(EffectiveDistance(cm))
    ELSE B_CONST * 1000

\* variant of the publication that truncates to 3 decimals
NoisyDose_Truncates(cm, open, noise) ==
    LET dose == PureDose(cm, open)
        q == dose \div 10000
        r == dose % 10000
        product == q * noise + (r * noise) \div 10000
    IN  product \div 1000

\* (currentDose * noise).toFixed(3), in thousandths
NoisyDose(cm, open, noise) ==
    LET dose == PureDose(cm, open)
        q == dose \div 10000
        r == dose % 10000
        product == q * noise + (r * noise) \div 10000
    IN  (product + 500) \div 1000

-----------------------------------------------------------------------------
(* Emitter *)

\* the id field is Math.random(); the model draws it fresh
spawnParticle(id, draw) ==
    [ id |-> id,
      x |-> U(SOURCE_X + 10),
      y |-> U(CENTER_Y),
      vx |-> draw.vx,
      vy |-> draw.vy,
      type |-> "beta",
      life |-> BetaLife,
      history |-> << >> ]

spawnBackgroundParticle(id, draw) ==
    LET start ==
            CASE draw.edge = 0 ->
                   [x |-> draw.along, y |-> -U(EdgeOffset),
                    vx |-> draw.lat, vy |-> draw.fwd]
              [] draw.edge = 1 ->
                   [x |-> U(CANVAS_WIDTH + EdgeOffset), y |-> draw.along,
                    vx |-> -draw.fwd, vy |-> draw.lat]
              [] draw.edge = 2 ->
                   [x |-> draw.along, y |-> U(CANVAS_HEIGHT + EdgeOffset),
                    vx |-> draw.lat, vy |-> -draw.fwd]
              [] OTHER ->
                   [x |-> -U(EdgeOffset), y |-> draw.along,
                    vx |-> draw.fwd, vy |-> draw.lat]
    IN  [ id |-> id,
          x |-> start.x,
          y |-> start.y,
          vx |-> start.vx,
          vy |-> start.vy,
          type |-> "background_photon",
          life |-> BackgroundLife,
          history |-> << >> ]

\* variant of the spawning part whose loop stops one beta short
Emit_TwoBetas(store, open, tickNo, betas, background) ==
    LET base == tickNo * (BetasPerTick + 1)
        withBetas ==
            IF open
            THEN store \o [k \in 1..(BetasPerTick - 1) |-> spawnParticle(base + k, betas[k])]
            ELSE store
    IN  IF background = << >>
        THEN withBetas
        ELSE Append(withBetas, spawnBackgroundParticle(base, background[1]))

\* the spawning part of tick: BetasPerTick betas when the source is open,
\* then a background photon when the draw falls below 0.3
Emit(store, open, tickNo, betas, background) ==
    LET base == tickNo * (BetasPerTick + 1)
        withBetas ==
            IF open
            THEN store \o [k \in 1..BetasPerTick |-> spawnParticle(base + k, betas[k])]
            ELSE store
    IN  IF background = << >>
        THEN withBetas
        ELSE Append(withBetas, spawnBackgroundParticle(base, background[1]))

-----------------------------------------------------------------------------
(* InteractionResolver *)

DetectorX(cm) == PMMA_X + PMMA_VISUAL_THICKNESS + cm * PX_PER_CM

\* variant of the slab test that leaves out the face at x = PMMA_X
InAttenuator_WithoutFace(p) ==
    /\ p.x > U(PMMA_X)
    /\ p.x <= U(PMMA_X + PMMA_VISUAL_THICKNESS)
    /\ 2 * p.y > U(2 * CENTER_Y - PMMA_HEIGHT)
    /\ 2 * p.y < U(2 * CENTER_Y + PMMA_HEIGHT)

InAttenuator(p) ==
    /\ p.x >= U(PMMA_X)
    /\ p.x <= U(PMMA_X + PMMA_VISUAL_THICKNESS)
    /\ 2 * p.y > U(2 * CENTER_Y - PMMA_HEIGHT)
    /\ 2 * p.y < U(2 * CENTER_Y + PMMA_HEIGHT)

InDetector(p, cm) ==
    /\ p.x >= U(DetectorX(cm))
    /\ p.x <= U(DetectorX(cm) + DETECTOR_WIDTH)
    /\ 2 * p.y >= U(2 * CENTER_Y - DETECTOR_HEIGHT)
    /\ 2 * p.y <= U(2 * CENTER_Y + DETECTOR_HEIGHT)

OutOfBounds(p) ==
    \/ p.x < -U(BoundsMargin)
    \/ p.x > U(CANVAS_WIDTH + BoundsMargin)
    \/ p.y < -U(BoundsMargin)
    \/ p.y > U(CANVAS_HEIGHT + BoundsMargin)

\* variant of the trail update that evicts the newest position
PushTrail_EvictsNewest(history, pos) ==
    LET pushed == Append(history, pos)
    IN  IF Len(pushed) > TrailLength THEN SubSeq(pushed, 1, TrailLength) ELSE pushed

\* variant of the trail update without the shift
PushTrail_NoShift(history, pos) == Append(history, pos)

\* history.push, then shift when longer than TrailLength
PushTrail(history, pos) ==
    LET pushed == Append(history, pos)
    IN  IF Len(pushed) > TrailLength THEN Tail(pushed) ELSE pushed

\* variant of the move that never decrements life
Move_NoDecay(p, variant) ==
    LET nx == p.x + p.vx
        ny == p.y + p.vy
    IN  [p EXCEPT !.x = nx,
                  !.y = ny,
                  !.history = PushTrail(@, [x |-> nx, y |-> ny])]

\* position += velocity; life -= 1 in simulator.js only; trail update
Move(p, variant) ==
    LET nx == p.x + p.vx
        ny == p.y + p.vy
    IN  [p EXCEPT !.x = nx,
                  !.y = ny,
                  !.life = IF variant = "js" THEN @ - 1 ELSE @,
                  !.history = PushTrail(@, [x |-> nx, y |-> ny])]

\* variant of the transition test that does not look at the kind
Transitions_AnyKind(p) == InAttenuator(p)

Transitions(p) == p.type = "beta" /\ InAttenuator(p)

\* variant of the transition that keeps the trail
Attenuate_KeepsTrail(p, angle, variant) ==
    IF Transitions(p)
    THEN [p EXCEPT !.type = "photon",
                   !.vx = (U(PhotonSpeed) * angle.cos2) \div 2,
                   !.vy = (U(PhotonSpeed) * angle.sin8) \div 8,
                   !.life = IF variant = "js" THEN PhotonLife ELSE @]
    ELSE p

\* Beta -> Photon: trail cleared, velocity redrawn, life 400 in simulator.js
Attenuate(p, angle, variant) ==
    IF Transitions(p)
    THEN [p EXCEPT !.type = "photon",
                   !.history = << >>,
                   !.vx = (U(PhotonSpeed) * angle.cos2) \div 2,
                   !.vy = (U(PhotonSpeed) * angle.sin8) \div 8,
                   !.life = IF variant = "js" THEN PhotonLife ELSE @]
    ELSE p

Detected(p, cm) ==
    /\ p.type \in {"photon", "background_photon"}
    /\ InDetector(p, cm)

\* variant of the absorption that leaves the particle alive
Absorb_Keeps(p, cm) == p

Absorb(p, cm) == IF Detected(p, cm) THEN [p EXCEPT !.life = 0] ELSE p

Cleanup(p) == IF OutOfBounds(p) THEN [p EXCEPT !.life = 0] ELSE p

\* the indices of the store whose particle draws an angle in this pass
Transitioning(store, variant) ==
    { i \in DOMAIN store : Transitions(Move(store[i], variant)) }

NoAngle == [cos2 |-> 0, sin8 |-> 0]

\* the body of the forEach, up to the detector test
Interact(p, angle, variant) == Attenuate(Move(p, variant), angle, variant)

\* variant of the update pass whose final sweep keeps a particle at life 0
updateParticles_KeepsExpired(store, cm, angles, variant) ==
    LET interacted ==
            [i \in DOMAIN store |->
                Interact(store[i],
                         IF i \in DOMAIN angles THEN angles[i] ELSE NoAngle,
                         variant)]
        hits == Cardinality({i \in DOMAIN store : Detected(interacted[i], cm)})
        passed == [i \in DOMAIN store |-> Cleanup(Absorb(interacted[i], cm))]
        Kept(p) == p.life >= 0
    IN  [particles |-> SelectSeq(passed, Kept), hits |-> hits]

\* one update pass over the store: the store left and the hits counted
updateParticles(store, cm, angles, variant) ==
    LET interacted ==
            [i \in DOMAIN store |->
                Interact(store[i],
                         IF i \in DOMAIN angles THEN angles[i] ELSE NoAngle,
                         variant)]
        hits == Cardinality({i \in DOMAIN store : Detected(interacted[i], cm)})
        passed == [i \in DOMAIN store |-> Cleanup(Absorb(interacted[i], cm))]
        Alive(p) == p.life > 0
    IN  [particles |-> SelectSeq(passed, Alive), hits |-> hits]

-----------------------------------------------------------------------------
(* SimulationClock: the frame driver and the dose driver *)

\* what a callback reads: simulator.js reads the globals when it runs, the
\* React callbacks read the values their closure captured when created
Closure(cm, open, heat) == [distanceCm |-> cm, sourceOpen |-> open, showHeatmap |-> heat]

Callback(handle, cm, open, heat) ==
    [handle |-> handle, closure |-> Closure(cm, open, heat)]

Env(callback) ==
    IF impl = "js"
    THEN Closure(distanceCm, sourceOpen, showHeatmap)
    ELSE callback.closure

\* variant of the cancellation that cancels nothing
Cancel_Nothing(queue, handle) == queue

\* cancelAnimationFrame(id) / clearInterval(id)
Cancel(queue, handle) == { c \in queue : c.handle # handle }

\* the render pass: the particle set is drawn in the particle view only
drawScene(store, heat) ==
    [heatmap |-> heat, particles |-> IF heat THEN << >> ELSE store]

\* variant of the tick that runs the update pass before the Emitter
tickStore_UpdateFirst(store, env, tickNo, betas, background, angles, variant) ==
    LET updated == updateParticles(store, env.distanceCm, angles, variant)
    IN  [particles |-> Emit(updated.particles, env.sourceOpen, tickNo, betas, background),
         hits |-> updated.hits]

\* Emitter, then InteractionResolver
tickStore(store, env, tickNo, betas, background, angles, variant) ==
    updateParticles(Emit(store, env.sourceOpen, tickNo, betas, background),
                    env.distanceCm, angles, variant)

\* no heatmap pass is running
NoPass ==
    [i |-> 0, j |-> 0, running |-> FALSE,
     filled |-> FALSE, block |-> << 0, 0 >>, t |-> 0, hue |-> 0]

\* explainExperiment has not been called
NotAsked == [settled |-> "never", text |-> ""]

Init ==
    /\ impl \in Impls
    /\ distanceCm = InitialDistanceCm
    /\ sourceOpen = TRUE
    /\ showHeatmap = FALSE
    /\ counts = 0
    /\ countsShown = 0
    /\ particles = << >>
    /\ rendered = drawScene(<< >>, FALSE)
    /\ ticks = 0
    /\ bgSpawned = 0
    /\ inputs = 0
    /\ tornDown = FALSE
    /\ lastAction = "init"
    /\ heatmapPass = NoPass
    /\ explanation = NotAsked
    /\ nextHandle = 3
    /\ IF impl = "js"
       THEN \* requestAnimationFrame(tick), then setInterval(calculateDose, 500)
            /\ doseRateDisplay = InitialDoseRate
            /\ animationId = 1
            /\ frameQueue = {Callback(1, 0, FALSE, FALSE)}
            /\ doseInterval = 2
            /\ timers = {Callback(2, 0, FALSE, FALSE)}
       ELSE \* mount: the dose effect (interval and an immediate sample), then
            \* the frame effect
            /\ \E noise \in NoiseDraws :
                   doseRateDisplay = NoisyDose(InitialDistanceCm, TRUE, noise)
            /\ doseInterval = 1
            /\ timers = {Callback(1, InitialDistanceCm, TRUE, FALSE)}
            /\ animationId = 2
            /\ frameQueue = {Callback(2, InitialDistanceCm, TRUE, FALSE)}

\* one frame: tick
Tick ==
    /\ ticks < MaxTicks
    /\ \E callback \in frameQueue :
       LET env == Env(callback) IN
       \E betas \in (IF env.sourceOpen THEN [1..BetasPerTick -> BetaDraws] ELSE {<< >>}),
          background \in {<< >>} \cup
                         (IF bgSpawned < MaxBackground
                          THEN {<<d>> : d \in BackgroundDraws} ELSE {}) :
       LET emitted == Emit(particles, env.sourceOpen, ticks, betas, background) IN
       /\ Len(emitted) <= MaxParticles
       /\ \E angles \in [Transitioning(emitted, impl) -> PhotonDraws] :
          LET result == tickStore(particles, env, ticks, betas, background, angles, impl)
          IN  /\ particles' = result.particles
              /\ counts' = counts + result.hits
              /\ countsShown' = IF result.hits > 0 THEN counts' ELSE countsShown
              /\ rendered' = drawScene(result.particles, env.showHeatmap)
       /\ frameQueue' = (frameQueue \ {callback}) \cup
                        {[handle |-> nextHandle, closure |-> callback.closure]}
       /\ animationId' = nextHandle
       /\ nextHandle' = nextHandle + 1
       /\ bgSpawned' = bgSpawned + Len(background)
    /\ ticks' = ticks + 1
    /\ lastAction' = "tick"
    /\ UNCHANGED << impl, heatmapPass, explanation, distanceCm, sourceOpen, showHeatmap, doseRateDisplay,
                    timers, doseInterval, inputs, tornDown >>

\* variant of the dose timer that also empties the store
DoseSample_ClearsStore ==
    /\ \E timer \in timers, noise \in NoiseDraws :
       LET env == Env(timer)
       IN  doseRateDisplay' = NoisyDose(env.distanceCm, env.sourceOpen, noise)
    /\ particles' = << >>
    /\ lastAction' = "dose"
    /\ UNCHANGED << impl, heatmapPass, explanation, distanceCm, sourceOpen,
                    showHeatmap, counts, countsShown, rendered, frameQueue,
                    animationId, timers, doseInterval, nextHandle, ticks,
                    bgSpawned, inputs, tornDown >>

\* the 500 ms timer: calculateDose
DoseSample ==
    /\ \E timer \in timers, noise \in NoiseDraws :
       LET env == Env(timer)
       IN  doseRateDisplay' = NoisyDose(env.distanceCm, env.sourceOpen, noise)
    /\ lastAction' = "dose"
    /\ UNCHANGED << impl, heatmapPass, explanation, distanceCm, sourceOpen, showHeatmap, counts, countsShown,
                    particles, rendered, frameQueue, animationId, timers,
                    doseInterval, nextHandle, ticks, bgSpawned, inputs, tornDown >>

-----------------------------------------------------------------------------
(* Control inputs *)

\* variant of the dose effect that leaves the old interval running
doseEffect_KeepsInterval(queue, interval, handle, cm, open) == queue

\* React, dose effect re-run (deps distanceCm, sourceOpen): the cleanup
\* clears the old interval, the effect sets a new one
doseEffect(queue, interval, handle, cm, open) ==
    Cancel(queue, interval) \cup {Callback(handle, cm, open, FALSE)}

\* variant of the frame effect that leaves the callback of the old tick
\* registered
frameEffect_KeepsCallback(queue, request, handle, cm, open, heat) == queue

\* React, frame effect re-run (deps: tick, re-created when distanceCm,
\* sourceOpen or showHeatmap change): the cleanup cancels requestRef.current
\* when set, the effect requests a frame for the new tick
frameEffect(queue, request, handle, cm, open, heat) ==
    (IF request # 0 THEN Cancel(queue, request) ELSE queue)
        \cup {Callback(handle, cm, open, heat)}

\* React: a re-render whose cm/open changed: both effects run again, the dose
\* effect first, with an immediate calculateDose
ReactDoseAndFrame(cm, open, heat) ==
    /\ timers' = doseEffect(timers, doseInterval, nextHandle, cm, open)
    /\ doseInterval' = nextHandle
    /\ \E noise \in NoiseDraws : doseRateDisplay' = NoisyDose(cm, open, noise)
    /\ frameQueue' = frameEffect(frameQueue, animationId, nextHandle + 1, cm, open, heat)
    /\ animationId' = nextHandle + 1
    /\ nextHandle' = nextHandle + 2

Input(name) ==
    /\ ~tornDown
    /\ inputs < MaxInputs
    /\ inputs' = inputs + 1
    /\ lastAction' = name

\* sliderHandler / setDistanceCm(parseInt(value))
SetDetectorDistance ==
    /\ Input("input")
    /\ \E cm \in DistanceInputs \ {distanceCm} :
       /\ distanceCm' = cm
       /\ IF impl = "js"
          THEN UNCHANGED << doseRateDisplay, frameQueue, animationId, timers,
                            doseInterval, nextHandle >>
          ELSE ReactDoseAndFrame(cm, sourceOpen, showHeatmap)
    /\ UNCHANGED << impl, heatmapPass, explanation, sourceOpen, showHeatmap, counts, countsShown, particles,
                    rendered, ticks, bgSpawned, tornDown >>

\* variant of the source toggle that also empties the store
SetSourceOpen_ClearsStore ==
    /\ Input("input")
    /\ sourceOpen' = ~sourceOpen
    /\ particles' = << >>
    /\ IF impl = "js"
       THEN UNCHANGED << doseRateDisplay, frameQueue, animationId, timers,
                         doseInterval, nextHandle >>
       ELSE ReactDoseAndFrame(distanceCm, ~sourceOpen, showHeatmap)
    /\ UNCHANGED << impl, heatmapPass, explanation, distanceCm, showHeatmap, counts,
                    countsShown, rendered, ticks, bgSpawned, tornDown >>

\* variant of the source toggle that also clears the count
SetSourceOpen_ClearsCounts ==
    /\ Input("input")
    /\ sourceOpen' = ~sourceOpen
    /\ counts' = 0
    /\ countsShown' = 0
    /\ IF impl = "js"
       THEN UNCHANGED << doseRateDisplay, frameQueue, animationId, timers,
                         doseInterval, nextHandle >>
       ELSE ReactDoseAndFrame(distanceCm, ~sourceOpen, showHeatmap)
    /\ UNCHANGED << impl, heatmapPass, explanation, distanceCm, showHeatmap, particles,
                    rendered, ticks, bgSpawned, tornDown >>

\* sourceToggle click / setSourceOpen(!sourceOpen)
SetSourceOpen ==
    /\ Input("input")
    /\ sourceOpen' = ~sourceOpen
    /\ IF impl = "js"
       THEN UNCHANGED << doseRateDisplay, frameQueue, animationId, timers,
                         doseInterval, nextHandle >>
       ELSE ReactDoseAndFrame(distanceCm, ~sourceOpen, showHeatmap)
    /\ UNCHANGED << impl, heatmapPass, explanation, distanceCm, showHeatmap, counts, countsShown, particles,
                    rendered, ticks, bgSpawned, tornDown >>

\* viewToggle change / setShowHeatmap(!showHeatmap)
SetHeatmapMode ==
    /\ Input("input")
    /\ showHeatmap' = ~showHeatmap
    /\ IF impl = "js"
       THEN UNCHANGED << frameQueue, animationId, nextHandle >>
       ELSE /\ frameQueue' = frameEffect(frameQueue, animationId, nextHandle,
                                         distanceCm, sourceOpen, ~showHeatmap)
            /\ animationId' = nextHandle
            /\ nextHandle' = nextHandle + 1
    /\ UNCHANGED << impl, heatmapPass, explanation, distanceCm, sourceOpen, counts, countsShown,
                    doseRateDisplay, particles, rendered, timers, doseInterval,
                    ticks, bgSpawned, tornDown >>

\* resetButton click handler (simulator.js): the state it leaves
resetJs ==
    [counts |-> 0, countsShown |-> 0, doseRateDisplay |-> InitialDoseRate,
     particles |-> << >>]

\* variant of handleReset that leaves the store alone
handleReset_KeepsStore(dose) ==
    [counts |-> 0, countsShown |-> 0, doseRateDisplay |-> dose,
     particles |-> particles]

\* handleReset (React): the displayed dose is not touched
handleReset(dose) ==
    [counts |-> 0, countsShown |-> 0, doseRateDisplay |-> dose,
     particles |-> << >>]

Reset ==
    /\ Input("reset")
    /\ LET after == IF impl = "js" THEN resetJs ELSE handleReset(doseRateDisplay)
       IN  /\ counts' = after.counts
           /\ countsShown' = after.countsShown
           /\ doseRateDisplay' = after.doseRateDisplay
           /\ particles' = after.particles
    /\ UNCHANGED << impl, heatmapPass, explanation, distanceCm, sourceOpen, showHeatmap, rendered, frameQueue,
                    animationId, timers, doseInterval, nextHandle, ticks,
                    bgSpawned, tornDown >>

\* variant of the frame teardown that cancels nothing
stopFrames_NoCancel(queue, request) == queue

\* beforeunload handler / unmount (both effect cleanups): the view closes
stopFrames(queue, request) == IF request # 0 THEN Cancel(queue, request) ELSE queue

stopDose(queue, interval) == Cancel(queue, interval)

Teardown ==
    /\ ~tornDown
    /\ tornDown' = TRUE
    /\ frameQueue' = stopFrames(frameQueue, animationId)
    /\ timers' = stopDose(timers, doseInterval)
    /\ lastAction' = "teardown"
    /\ UNCHANGED << impl, heatmapPass, explanation, distanceCm, sourceOpen, showHeatmap, counts, countsShown,
                    doseRateDisplay, particles, rendered, animationId, doseInterval,
                    nextHandle, ticks, bgSpawned, inputs >>

Next ==
    \/ Tick
    \/ DoseSample
    \/ SetDetectorDistance
    \/ SetSourceOpen
    \/ SetHeatmapMode
    \/ Reset
    \/ Teardown

Spec == Init /\ [][Next]_vars

-----------------------------------------------------------------------------
(* Vocabulary of the properties *)

Ids(store) == { store[i].id : i \in DOMAIN store }

ById(store, id) == store[CHOOSE i \in DOMAIN store : store[i].id = id]

\* the particles that are in the store before and after the step
Surviving == Ids(particles) \cap Ids(particles')

\* the particles the step added to the store
Added == Ids(particles') \ Ids(particles)

PhotonKinds == {"photon", "background_photon"}

\* where the next update pass puts a particle
PostMove(p) == [x |-> p.x + p.vx, y |-> p.y + p.vy]

Min(a, b) == IF a <= b THEN a ELSE b

-----------------------------------------------------------------------------
(* C1: over every step, a particle that stays in the store either keeps its
   kind or goes from Beta to Photon; a Photon (also one inside the
   attenuator rectangle) keeps its velocity and its trail is extended, not
   cleared; a BackgroundPhoton keeps its kind. *)
C1_KindChangesOnlyBetaToPhoton ==
    [][\A id \in Surviving :
         LET p == ById(particles, id)
             q == ById(particles', id)
         IN  /\ q.type # p.type => (p.type = "beta" /\ q.type = "photon")
             /\ (p.type = "photon" /\ lastAction' = "tick") =>
                   /\ q.vx = p.vx
                   /\ q.vy = p.vy
                   /\ Len(q.history) = Min(TrailLength, Len(p.history) + 1)]_vars

\* a Photon that went through an update pass as a Photon and lies inside
\* the attenuator rectangle
C1_Witness ==
    \E i \in DOMAIN particles :
        /\ particles[i].type = "photon"
        /\ InAttenuator(particles[i])
        /\ particles[i].history # << >>

-----------------------------------------------------------------------------
\* a particle of the store that the next update pass, run with the current
\* detector distance, finds inside the detector rectangle as a Photon or a
\* BackgroundPhoton
HitsDetector(p) ==
    /\ InDetector(PostMove(p), distanceCm)
    /\ \/ p.type \in PhotonKinds
       \/ p.type = "beta" /\ InAttenuator(PostMove(p))

(* C2: in every tick the cumulative count grows by exactly the number of
   particles whose post-move position lies inside the detector rectangle as
   Photon or BackgroundPhoton, each of them is absent from the store at the
   end of that tick, and no particle left in the store is a detected one. *)
C2_EachDetectionCountsOnce ==
    [][lastAction' = "tick" =>
         LET hit == { id \in Ids(particles) : HitsDetector(ById(particles, id)) }
         IN  /\ counts' = counts + Cardinality(hit)
             /\ hit \cap Ids(particles') = {}
             /\ \A j \in DOMAIN particles' : ~Detected(particles'[j], distanceCm)]_vars

\* a tick has just absorbed a particle: the count is up and shown
C2_Witness ==
    /\ lastAction = "tick"
    /\ counts > 0
    /\ countsShown = counts
    /\ Len(rendered.particles) < MaxParticles

(* C3: the cumulative count changes only in a tick, where it does not
   decrease, and in a reset, where it becomes 0; the other control inputs and
   the dose sample leave it unchanged. *)
C3_CountMonotonicBetweenResets ==
    [][counts' # counts =>
         \/ lastAction' = "tick" /\ counts' > counts
         \/ lastAction' = "reset" /\ counts' = 0]_vars

\* a control input other than reset arrives after at least one detection
C3_Witness ==
    /\ lastAction = "input"
    /\ counts > 0

(* C4: right after reset the cumulative count is 0, the displayed count is 0
   and the particle store is empty. *)
C4_ResetClearsCountAndStore ==
    lastAction = "reset" =>
        /\ counts = 0
        /\ countsShown = 0
        /\ particles = << >>

\* reset arrived while particles drawn by the last frame were in flight
C4_Witness ==
    /\ lastAction = "reset"
    /\ rendered.particles # << >>
    /\ ticks > 0

(* C5: right after reset the displayed dose is the background-only value
   "0.150", in both implementations. *)
C5_ResetShowsBackgroundDose ==
    lastAction = "reset" => doseRateDisplay = InitialDoseRate

(* C6: no particle's trail holds more than 10 positions, in the store and in
   what the render pass drew. *)
C6_TrailAtMostTen ==
    /\ \A i \in DOMAIN particles : Len(particles[i].history) <= TrailLength
    /\ \A i \in DOMAIN rendered.particles :
           Len(rendered.particles[i].history) <= TrailLength

\* a background photon that moved more than 10 times and holds a full trail
C6_Witness ==
    /\ impl = "js"
    /\ \E i \in DOMAIN particles :
           /\ particles[i].type = "background_photon"
           /\ Len(particles[i].history) = TrailLength
           /\ particles[i].life < BackgroundLife - TrailLength

Range(f) == { f[k] : k \in DOMAIN f }

(* C7: a particle whose kind changes in a step has an empty trail after the
   step, and the trail of a Photon after a tick holds only positions of its
   trail before the tick, when it already was a Photon, and its new
   position: no position recorded while it was a Beta. *)
C7_TrailResetOnKindChange ==
    [][\A id \in Surviving :
         LET p == ById(particles, id)
             q == ById(particles', id)
         IN  /\ q.type # p.type => q.history = << >>
             /\ (q.type = "photon" /\ p.type = "beta") => q.history = << >>
             /\ (q.type = "photon" /\ p.type = "photon") =>
                   Range(q.history) \subseteq
                       Range(p.history) \cup {[x |-> q.x, y |-> q.y]}]_vars

\* the end of the tick in which a Beta became a Photon
C7_Witness ==
    /\ lastAction = "tick"
    /\ \E i \in DOMAIN particles :
           /\ particles[i].type = "photon"
           /\ particles[i].history = << >>
           /\ InAttenuator(particles[i])

StartLife(kind) == IF kind = "beta" THEN BetaLife ELSE BackgroundLife

(* C8: a tick adds exactly 3 Beta particles when sourceOpen is true and none
   when it is false, and at most one BackgroundPhoton; each added particle
   has made its first move from an empty trail and from life 200 (Beta) or
   400 (BackgroundPhoton); no other action adds a particle. *)
C8_EmitterSpawns ==
    [][IF lastAction' = "tick"
       THEN LET new == { ById(particles', id) : id \in Added }
            IN  /\ Cardinality({ q \in new : q.type = "beta" })
                     = IF sourceOpen THEN BetasPerTick ELSE 0
                /\ Cardinality({ q \in new : q.type = "background_photon" }) <= 1
                /\ \A q \in new :
                      /\ q.type \in {"beta", "background_photon"}
                      /\ q.history = << [x |-> q.x, y |-> q.y] >>
                      /\ q.life = StartLife(q.type) - (IF impl = "js" THEN 1 ELSE 0)
       ELSE Added = {}]_vars

\* a tick with the source open has just added its three betas
C8_Witness ==
    /\ lastAction = "tick"
    /\ sourceOpen
    /\ Cardinality({ i \in DOMAIN particles :
                        /\ particles[i].type = "beta"
                        /\ Len(particles[i].history) = 1 }) = BetasPerTick

(* C9: from the teardown signal on, the particle store, the cumulative count
   and the displayed dose never change. *)
C9_NoMutationAfterTeardown ==
    [][(tornDown \/ tornDown') =>
         /\ particles' = particles
         /\ counts' = counts
         /\ doseRateDisplay' = doseRateDisplay]_vars

\* the teardown arrived between two ticks, with particles in flight
C9_Witness ==
    /\ tornDown
    /\ ticks > 0
    /\ particles # << >>

\* the particles the last tick spawned
Fresh(p) == p.id >= (ticks - 1) * (BetasPerTick + 1)

(* C10: what the render pass of a tick draws is the store as the update pass
   left it, the next frame is requested after it, and a particle spawned in
   a tick has been moved exactly once (in simulator.js its life decremented
   once) before it is drawn: no Beta or BackgroundPhoton is drawn with an
   untouched trail. *)
C10_SpawnThenUpdateThenRender ==
    /\ \A i \in DOMAIN rendered.particles :
           LET p == rendered.particles[i]
           IN  p.type \in {"beta", "background_photon"} => p.history # << >>
    /\ lastAction = "tick" =>
           /\ rendered = drawScene(particles, showHeatmap)
           /\ \E c \in frameQueue : c.handle = animationId
           /\ \A i \in DOMAIN particles :
                  LET p == particles[i]
                  IN  Fresh(p) =>
                         /\ p.history = << [x |-> p.x, y |-> p.y] >>
                         /\ impl = "js" => p.life = StartLife(p.type) - 1

\* a frame has just drawn the betas spawned in its own tick
C10_Witness ==
    /\ lastAction = "tick"
    /\ \E i \in DOMAIN rendered.particles :
           /\ Fresh(rendered.particles[i])
           /\ rendered.particles[i].type = "beta"

-----------------------------------------------------------------------------
(* DoseModel on its own: the dose timer firing at every slider position and
   both shutter states *)

\* the control inputs that lead from the initial state to (cm, open)
InputsTo(cm, open) ==
    (IF cm # InitialDistanceCm THEN 1 ELSE 0) + (IF open THEN 0 ELSE 1)

\* the state after the slider was moved to any position and the shutter
\* set either way, before the first frame
DoseInit ==
    /\ impl \in Impls
    /\ distanceCm \in 0..SliderMax
    /\ sourceOpen \in BOOLEAN
    /\ showHeatmap = FALSE
    /\ counts = 0
    /\ countsShown = 0
    /\ particles = << >>
    /\ rendered = drawScene(<< >>, FALSE)
    /\ ticks = 0
    /\ bgSpawned = 0
    /\ tornDown = FALSE
    /\ heatmapPass = NoPass
    /\ explanation = NotAsked
    /\ inputs = InputsTo(distanceCm, sourceOpen)
    /\ lastAction = IF inputs = 0 THEN "init" ELSE "input"
    /\ IF impl = "js"
       THEN /\ doseRateDisplay = InitialDoseRate
            /\ animationId = 1
            /\ frameQueue = {Callback(1, 0, FALSE, FALSE)}
            /\ doseInterval = 2
            /\ timers = {Callback(2, 0, FALSE, FALSE)}
            /\ nextHandle = 3
       ELSE \* every input re-ran both effects
            /\ \E noise \in NoiseDraws :
                   doseRateDisplay = NoisyDose(distanceCm, sourceOpen, noise)
            /\ doseInterval = 1 + 2 * inputs
            /\ timers = {Callback(doseInterval, distanceCm, sourceOpen, FALSE)}
            /\ animationId = 2 + 2 * inputs
            /\ frameQueue = {Callback(animationId, distanceCm, sourceOpen, FALSE)}
            /\ nextHandle = 3 + 2 * inputs

DoseNext == DoseSample

DoseSpec == DoseInit /\ [][DoseNext]_vars

-----------------------------------------------------------------------------
\* the value published for b times the noise alone
BackgroundSamples == { (B_CONST * noise + 5000) \div 10000 : noise \in NoiseDraws }

(* C11: with the source closed the pure dose is the background constant b
   exactly, at every detector distance from 0 to 150 cm, and the value the
   dose timer publishes is b times the noise, whatever the distance. *)
C11_ClosedDoseIsBackground ==
    ~sourceOpen =>
        /\ PureDose(distanceCm, sourceOpen) = B_CONST * 1000
        /\ lastAction = "dose" => doseRateDisplay \in BackgroundSamples

\* the dose timer fired with the source closed and the detector at 0 cm,
\* where the source term would be largest
C11_Witness ==
    /\ ~sourceOpen
    /\ distanceCm = 0
    /\ lastAction = "dose"

(* C12: with the source open the pure dose is strictly greater than b, and
   strictly greater than the pure dose at every larger slider distance: for
   1 <= d1 < d2 <= 150 cm, dose(d1) > dose(d2). *)
C12_OpenDoseStrictlyDecreasing ==
    sourceOpen =>
        /\ PureDose(distanceCm, sourceOpen) > B_CONST * 1000
        /\ \A d2 \in 1..SliderMax :
               (1 <= distanceCm /\ distanceCm < d2) =>
                   PureDose(distanceCm, sourceOpen) > PureDose(d2, sourceOpen)

\* the dose timer fired with the source open at 149 cm, one step from the
\* far end, where two neighbouring doses are closest
C12_Witness ==
    /\ sourceOpen
    /\ distanceCm = SliderMax - 1
    /\ lastAction = "dose"
    /\ doseRateDisplay > B_CONST

(* C13: at every slider distance from 0 to 150 cm the effective distance is
   at least 1 cm (0.01 m), so the division is defined; at 0 cm the pure dose
   and the published sample are those of 1 cm; no distance gives a pure dose
   above the one at 1 cm with the source open. *)
C13_DistanceClampedNeverRejected ==
    /\ EffectiveDistance(distanceCm) >= 1
    /\ EffectiveDistance(distanceCm) * EffectiveDistance(distanceCm) > 0
    /\ PureDose(distanceCm, sourceOpen) <= PureDose(1, TRUE)
    /\ distanceCm = 0 =>
           /\ PureDose(distanceCm, sourceOpen) = PureDose(1, sourceOpen)
           /\ lastAction = "dose" =>
                  doseRateDisplay \in
                      { NoisyDose(1, sourceOpen, noise) : noise \in NoiseDraws }

\* the dose timer fired with the source open and the slider at 0 cm
C13_Witness ==
    /\ sourceOpen
    /\ distanceCm = 0
    /\ lastAction = "dose"
    /\ doseRateDisplay > 1000 * B_CONST

\* how far the published value is from the pure dose, in micro-uSv/h
Deviation ==
    LET pure == PureDose(distanceCm, sourceOpen)
        shown == doseRateDisplay * 1000
    IN  IF shown >= pure THEN shown - pure ELSE pure - shown

(* C14, as stated: the value the dose timer publishes lies within 2% of the
   pure dose. *)
C14_PublishedWithinTwoPercent ==
    lastAction = "dose" => 50 * Deviation <= PureDose(distanceCm, sourceOpen)

(* C14, amended: the value the dose timer publishes lies within 2% of the
   pure dose plus half a unit of the third decimal (0.0005 uSv/h), the
   rounding of toFixed(3). *)
C14_PublishedWithinTwoPercentAndRounding ==
    lastAction = "dose" =>
        50 * (Deviation - 500) <= PureDose(distanceCm, sourceOpen)

\* a published sample more than 2% away from the pure dose
C14_Witness ==
    /\ lastAction = "dose"
    /\ sourceOpen
    /\ distanceCm = InitialDistanceCm
    /\ 50 * Deviation > PureDose(distanceCm, sourceOpen)

-----------------------------------------------------------------------------
(* FieldSampler: drawHeatmap.  Pixel distances are kept in units of 1e-4 m,
   field values in thousandths of a uSv/h, logarithms and t in thousandths,
   hues in thousandths of a degree. *)

blockSize == 8
HeatmapCols == (CANVAS_WIDTH + blockSize - 1) \div blockSize
HeatmapRows == (CANVAS_HEIGHT + blockSize - 1) \div blockSize
pmmaCenterX == PMMA_X + PMMA_VISUAL_THICKNESS \div 2
pmmaCenterY == CENTER_Y
HeatmapCeiling == 50     \* maxLog = Math.log10(50)
HueRange == 240

RECURSIVE SqrtBetween(_, _, _)
\* the largest r in lo..hi with r * r <= n
SqrtBetween(n, lo, hi) ==
    IF lo >= hi
    THEN lo
    ELSE LET mid == (lo + hi + 1) \div 2
         IN  IF mid * mid <= n
             THEN SqrtBetween(n, mid, hi)
             ELSE SqrtBetween(n, lo, mid - 1)

\* Math.sqrt, floored
Sqrt(n) == SqrtBetween(n, 0, 46340)

\* distM = Math.max(distPx / PX_PER_CM / 100, 0.01), in 1e-4 m
FieldDistance(dx, dy) ==
    LET perPx == 10000 \div (PX_PER_CM * 100)
        distPx2 == dx * dx + dy * dy
    IN  Max(Sqrt(distPx2 * perPx * perPx), 100)

\* Math.exp(-MU_CONST * distM) in millionths, as ExpNeg
FieldAttenuation(dist) ==
    LET x == MU_CONST * dist
        x2 == (x * x) \div 2000000
    IN  1000000 - x + x2 - (x2 * x) \div 3000000

\* fieldValue, in thousandths of a uSv/h
fieldValue(dist, open) ==
    IF open
    THEN LET attenuation == FieldAttenuation(dist) \div 100
         IN  B_CONST + ((((K_CONST * 1000) * attenuation) \div dist) * 10) \div dist
    ELSE B_CONST

\* 10^(1/2), 10^(1/4), ... 10^(1/1024) in 1/10000, and the thousandths of
\* a decade each stands for
RootsOfTen == << 31623, 17783, 13335, 11548, 10746, 10366, 10182, 10090, 10045, 10023 >>
DecadeBits == << 500, 250, 125, 63, 31, 16, 8, 4, 2, 1 >>

RECURSIVE LogMantissa(_, _)
\* log10 of m / 10000 for 10000 <= m < 100000, in thousandths
LogMantissa(m, k) ==
    IF k > Len(RootsOfTen)
    THEN 0
    ELSE IF m >= RootsOfTen[k]
         THEN DecadeBits[k] + LogMantissa((m * 10000) \div RootsOfTen[k], k + 1)
         ELSE LogMantissa(m, k + 1)

RECURSIVE Log10Scaled(_)
\* log10 of w / 10000, in thousandths
Log10Scaled(w) ==
    IF w >= 100000
    THEN 1000 + Log10Scaled(w \div 10)
    ELSE IF w < 10000
         THEN Log10Scaled(w * 10) - 1000
         ELSE LogMantissa(w, 1)

\* Math.log10 of a value given in thousandths, in thousandths
Log10(v) == Log10Scaled(v * 10)

\* variant of the normalisation without the clamp
Clamp01_None(t) == t

\* t = Math.max(0, Math.min(1, t))
Clamp01(t) == Max(0, Min(1000, t))

\* the fill of the block sampled at pixel (x, y): t and hue
HeatmapFill(x, y, open) ==
    LET dx == x - pmmaCenterX
        dy == y - pmmaCenterY
        logVal == Log10(fieldValue(FieldDistance(dx, dy), open))
        minLog == Log10(B_CONST)
        maxLog == Log10(HeatmapCeiling * 1000)
        t == Clamp01(((logVal - minLog) * 1000) \div (maxLog - minLog))
    IN  [t |-> t, hue |-> HueRange * 1000 - t * HueRange]

\* variant of the sampler that measures from the detector instead of the
\* attenuator
drawHeatmapFill_AroundDetector(i, j, env) ==
    HeatmapFill(i * blockSize - (DetectorX(env.distanceCm) - pmmaCenterX),
                j * blockSize, env.sourceOpen)

\* the body of the two loops of drawHeatmap for block (i, j)
drawHeatmapFill(i, j, env) ==
    LET x == i * blockSize
        y == j * blockSize
    IN  HeatmapFill(x, y, env.sourceOpen)

\* a frame in heatmap mode has reached drawHeatmap: the state after at most
\* one frame in the initial state, the slider moved and the shutter set
\* either way, and the view switched to the heatmap
FieldInit ==
    /\ impl \in Impls
    /\ distanceCm \in DistanceInputs \cup {InitialDistanceCm}
    /\ sourceOpen \in BOOLEAN
    /\ showHeatmap = TRUE
    /\ counts = 0
    /\ countsShown = 0
    /\ ticks \in {0, 1}
    /\ particles \in
         IF ticks = 0
         THEN {<< >>}
         ELSE { tickStore(<< >>, Closure(InitialDistanceCm, TRUE, FALSE), 0,
                          betas, << >>, << >>, impl).particles :
                    betas \in [1..BetasPerTick -> BetaDraws] }
    /\ rendered = drawScene(particles, FALSE)
    /\ bgSpawned = 0
    /\ tornDown = FALSE
    /\ explanation = NotAsked
    /\ heatmapPass = [NoPass EXCEPT !.running = TRUE]
    /\ inputs = InputsTo(distanceCm, sourceOpen) + 1
    /\ lastAction = "input"
    /\ IF impl = "js"
       THEN /\ doseRateDisplay = InitialDoseRate
            /\ animationId = IF ticks = 0 THEN 1 ELSE 3
            /\ frameQueue = {Callback(animationId, 0, FALSE, FALSE)}
            /\ doseInterval = 2
            /\ timers = {Callback(2, 0, FALSE, FALSE)}
            /\ nextHandle = 3 + ticks
       ELSE /\ \E noise \in NoiseDraws :
                   doseRateDisplay = NoisyDose(distanceCm, sourceOpen, noise)
            /\ doseInterval = IF inputs = 1 THEN 1 ELSE 2 * inputs + ticks - 1
            /\ timers = {Callback(doseInterval, distanceCm, sourceOpen, FALSE)}
            /\ animationId = 2 * inputs + ticks + 1
            /\ frameQueue = {Callback(animationId, distanceCm, sourceOpen, TRUE)}
            /\ nextHandle = animationId + 1

\* one iteration of the loops of drawHeatmap: the fill of block (i, j)
DrawHeatmapBlock ==
    /\ heatmapPass.running
    /\ \E callback \in frameQueue :
       LET i == heatmapPass.i
           j == heatmapPass.j
           fill == drawHeatmapFill(i, j, Env(callback))
           lastRow == j + 1 >= HeatmapRows
           lastCol == i + 1 >= HeatmapCols
       IN  heatmapPass' =
               [i |-> IF lastRow THEN i + 1 ELSE i,
                j |-> IF lastRow THEN 0 ELSE j + 1,
                running |-> ~(lastRow /\ lastCol),
                filled |-> TRUE,
                block |-> << i, j >>,
                t |-> fill.t,
                hue |-> fill.hue]
    /\ lastAction' = "heatmap"
    /\ UNCHANGED << impl, explanation, distanceCm, sourceOpen, showHeatmap, counts,
                    countsShown, doseRateDisplay, particles, rendered, frameQueue,
                    animationId, timers, doseInterval, nextHandle, ticks,
                    bgSpawned, inputs, tornDown >>

FieldNext == DrawHeatmapBlock

FieldSpec == FieldInit /\ [][FieldNext]_vars

-----------------------------------------------------------------------------
\* the fill the pass has just given its block
LastFill == [t |-> heatmapPass.t, hue |-> heatmapPass.hue]

(* C15: the fill of a block is the same at every detector distance (and so
   for every store, count and displayed dose, which the sampler cannot
   read) once sourceOpen is fixed, and filling a block changes neither the
   detector distance, the shutter, the store, the count nor the displayed
   dose. *)
C15_FieldDependsOnSourceOnly ==
    [][lastAction' = "heatmap" =>
         /\ \A cm \in DistanceInputs \cup {InitialDistanceCm} :
                drawHeatmapFill(heatmapPass'.block[1], heatmapPass'.block[2],
                                Closure(cm, sourceOpen, TRUE))
                    = [t |-> heatmapPass'.t, hue |-> heatmapPass'.hue]
         /\ UNCHANGED << distanceCm, sourceOpen, showHeatmap, particles, counts,
                         countsShown, doseRateDisplay >>]_vars

\* a block right of the detector at 0 cm is filled, between the endpoints
\* of the scale, with particles in flight and the detector moved
C15_Witness ==
    /\ heatmapPass.filled
    /\ sourceOpen
    /\ distanceCm = 0
    /\ particles # << >>
    /\ heatmapPass.block[1] * blockSize > DetectorX(distanceCm) + DETECTOR_WIDTH
    /\ heatmapPass.t > 0
    /\ heatmapPass.t < 1000

(* C16: the fill of block (i, j) is the field at the block's center
   (8i+4, 8j+4), from the pixel distance of that center to the attenuator
   center (125, 200). *)
C16_SampledAtBlockCenter ==
    heatmapPass.filled =>
        LastFill = HeatmapFill(heatmapPass.block[1] * blockSize + blockSize \div 2,
                               heatmapPass.block[2] * blockSize + blockSize \div 2,
                               sourceOpen)

\* the block that contains the attenuator center
CenterBlock == << pmmaCenterX \div blockSize, pmmaCenterY \div blockSize >>

(* C17: t lies in [0, 1] and the hue in [0, 240]; with the source closed
   every block has t = 0 and hue 240; with the source open the block that
   contains the attenuator center has t = 1 and hue 0. *)
C17_HeatmapScaleEndpoints ==
    heatmapPass.filled =>
        /\ heatmapPass.t >= 0
        /\ heatmapPass.t <= 1000
        /\ heatmapPass.hue >= 0
        /\ heatmapPass.hue <= HueRange * 1000
        /\ ~sourceOpen => (heatmapPass.t = 0 /\ heatmapPass.hue = HueRange * 1000)
        /\ (sourceOpen /\ heatmapPass.block = CenterBlock) =>
               (heatmapPass.t = 1000 /\ heatmapPass.hue = 0)

\* the pass has just filled the block of the attenuator center, source open
C17_Witness ==
    /\ heatmapPass.filled
    /\ sourceOpen
    /\ heatmapPass.block = CenterBlock
    /\ heatmapPass.hue = 0

-----------------------------------------------------------------------------
(* explainExperiment: the call to the narrative collaborator *)

Fallback == "Unable to contact the lab AI assistant at this moment."
NoExplanation == "No explanation available."
CollaboratorText == "lab report"

\* new GoogleGenAI({ apiKey }) returns a client or throws
Constructions == {"client", "throws"}

\* ai.models.generateContent resolves with a text, resolves with an empty
\* text, or rejects
Generations == {"text", "empty", "throws"}

\* how the promise of explainExperiment settles: the client is constructed
\* before the try block, the request is awaited inside it
explainExperiment(distance, uSvh, construction, generation) ==
    IF construction = "throws"
    THEN [settled |-> "rejected", text |-> ""]
    ELSE CASE generation = "throws" -> [settled |-> "resolved", text |-> Fallback]
           [] generation = "empty" -> [settled |-> "resolved", text |-> NoExplanation]
           [] OTHER -> [settled |-> "resolved", text |-> CollaboratorText]

ExplainInit == DoseInit

\* a caller asks for the explanation of the current reading
ExplainExperiment ==
    /\ \E construction \in Constructions, generation \in Generations :
         LET result == explainExperiment(distanceCm, doseRateDisplay,
                                         construction, generation)
         IN  explanation' =
                 [settled |-> result.settled,
                  text |-> result.text,
                  construction |-> construction,
                  generation |-> generation]
    /\ lastAction' = "explain"
    /\ UNCHANGED << impl, heatmapPass, distanceCm, sourceOpen, showHeatmap, counts,
                    countsShown, doseRateDisplay, particles, rendered, frameQueue,
                    animationId, timers, doseInterval, nextHandle, ticks,
                    bgSpawned, inputs, tornDown >>

ExplainNext ==
    \/ ExplainExperiment
    \/ DoseSample

ExplainSpec == ExplainInit /\ [][ExplainNext]_vars

-----------------------------------------------------------------------------
(* C18: a call of explainExperiment always resolves with a string and never
   rejects: the fixed fallback string whenever the collaborator failed, the
   construction of the client included, and the collaborator's text when
   there is one. *)
C18_ExplainNeverFails ==
    explanation.settled # "never" =>
        /\ explanation.settled = "resolved"
        /\ ("throws" \in {explanation.construction, explanation.generation}) =>
               explanation.text = Fallback
        /\ (explanation.construction = "client" /\ explanation.generation = "text") =>
               explanation.text = CollaboratorText

-----------------------------------------------------------------------------
(* C19: a tick leaves the displayed dose, sourceOpen, the detector distance,
   the heatmap mode and the dose timer unchanged; a dose sample leaves the
   particle store, the cumulative count, sourceOpen, the detector distance
   and the pending frame unchanged. *)
C19_DriversIndependent ==
    [][/\ lastAction' = "tick" =>
              UNCHANGED << doseRateDisplay, sourceOpen, distanceCm, showHeatmap,
                           timers, doseInterval >>
       /\ lastAction' = "dose" =>
              UNCHANGED << particles, counts, countsShown, sourceOpen, distanceCm,
                           showHeatmap, frameQueue, animationId >>]_vars

\* the dose timer fired between two frames, with particles in flight and
\* detections counted, and published a new value
C19_Witness ==
    /\ lastAction = "dose"
    /\ particles # << >>
    /\ counts > 0
    /\ ticks > 0
    /\ doseRateDisplay # InitialDoseRate

-----------------------------------------------------------------------------
(* A long run, picked up LateTicks frames after the shutter was closed
   before the first frame and the first frame spawned a background photon
   at rest.  Frames, spawned background photons and control inputs are
   numbered from the state picked up. *)

\* spawnBackgroundParticle with edge 0, startX = 0 and both velocity draws
\* giving 0 (random = 0.5 and random = 0)
SlowBackgroundDraw == [edge |-> 0, along |-> 0, fwd |-> 0, lat |-> 0]

RECURSIVE Frames(_, _, _, _)
\* the store after n more frames that spawn nothing (the frames are run in
\* two halves, the first bound as a value before the second starts)
Frames(store, n, env, variant) ==
    IF n = 0
    THEN store
    ELSE IF n = 1
         THEN tickStore(store, env, 0, << >>, << >>, << >>, variant).particles
         ELSE CHOOSE late \in
                  { Frames(half, n - n \div 2, env, variant) :
                        half \in {Frames(store, n \div 2, env, variant)} } : TRUE

\* the store LateTicks frames after the first one
LateStore(variant) ==
    LET env == Closure(InitialDistanceCm, FALSE, FALSE)
        first == tickStore(<< >>, env, -LateTicks, << >>,
                           << SlowBackgroundDraw >>, << >>, variant).particles
    IN  Frames(first, LateTicks - 1, env, variant)

LateInit ==
    /\ impl \in Impls
    /\ distanceCm = InitialDistanceCm
    /\ sourceOpen = FALSE
    /\ showHeatmap = FALSE
    /\ counts = 0
    /\ countsShown = 0
    /\ particles = LateStore(impl)
    /\ rendered = drawScene(particles, FALSE)
    /\ ticks = 0
    /\ bgSpawned = 0
    /\ inputs = 0
    /\ tornDown = FALSE
    /\ lastAction = "tick"
    /\ heatmapPass = NoPass
    /\ explanation = NotAsked
    /\ \E noise \in NoiseDraws :
           doseRateDisplay = NoisyDose(InitialDistanceCm, FALSE, noise)
    /\ IF impl = "js"
       THEN /\ animationId = 2 + LateTicks
            /\ frameQueue = {Callback(animationId, 0, FALSE, FALSE)}
            /\ doseInterval = 2
            /\ timers = {Callback(2, 0, FALSE, FALSE)}
            /\ nextHandle = 3 + LateTicks
       ELSE /\ doseInterval = 3
            /\ timers = {Callback(3, InitialDistanceCm, FALSE, FALSE)}
            /\ animationId = 4 + LateTicks
            /\ frameQueue = {Callback(animationId, InitialDistanceCm, FALSE, FALSE)}
            /\ nextHandle = 5 + LateTicks

LateSpec == LateInit /\ [][Next]_vars

-----------------------------------------------------------------------------
(* C20: between ticks every particle of the store, and every particle the
   last frame drew, has life > 0 and lies inside [-20, 820] x [-20, 420]:
   a particle absorbed, expired or out of bounds does not outlive the
   update pass that found it so. *)
C20_StoreAliveAndInBounds ==
    /\ \A i \in DOMAIN particles :
           /\ particles[i].life > 0
           /\ ~OutOfBounds(particles[i])
    /\ \A i \in DOMAIN rendered.particles :
           /\ rendered.particles[i].life > 0
           /\ ~OutOfBounds(rendered.particles[i])

\* simulator.js: the frame in which the life of the photon at rest reached 0
\* has just removed it (no detection and no reset took place)
C20_Witness ==
    /\ impl = "js"
    /\ lastAction = "tick"
    /\ ticks = BackgroundLife - LateTicks
    /\ inputs = 0
    /\ bgSpawned = 0
    /\ counts = 0
    /\ particles = << >>

-----------------------------------------------------------------------------
\* the number of update passes a particle has gone through: the frames run
\* since the frame that spawned it, that one included
Age(p) == ticks - (p.id \div (BetasPerTick + 1))

\* the latest update pass at which a Beta turns into a Photon: the 30 px
\* from the spawn point to the slab at the slowest speed, 6 px a pass
LatestTransition == (PMMA_X - (SOURCE_X + 10)) \div 6

(* C21: in simulator.js the life of a particle is what its kind started
   from less the passes it went through: 400 - age for a BackgroundPhoton,
   200 - age for a Beta, 400 less the passes since its transition (which
   took place in pass 4 or 5) for a Photon; as life is positive between
   ticks, a BackgroundPhoton is gone after its 400th pass and a Photon after
   the 400th pass that follows its transition, 405 passes after spawn at
   most. *)
C21_BoundedLifetimeJs ==
    impl = "js" =>
        \A i \in DOMAIN particles :
            LET p == particles[i]
            IN  /\ Age(p) >= 1
                /\ p.life > 0
                /\ p.type = "background_photon" =>
                       (p.life = BackgroundLife - Age(p) /\ Age(p) < BackgroundLife)
                /\ p.type = "beta" =>
                       (p.life = BetaLife - Age(p) /\ Age(p) < LatestTransition)
                /\ p.type = "photon" =>
                       /\ \E k \in (LatestTransition - 1)..LatestTransition :
                              p.life = PhotonLife - (Age(p) - k)
                       /\ Age(p) < PhotonLife + LatestTransition

\* simulator.js: a background photon after its 399th pass, one pass from
\* its removal
C21_Witness ==
    /\ impl = "js"
    /\ lastAction = "tick"
    /\ \E i \in DOMAIN particles :
           /\ particles[i].type = "background_photon"
           /\ particles[i].life = 1
           /\ Age(particles[i]) = BackgroundLife - 1

-----------------------------------------------------------------------------
(* The two implementations side by side *)

Other(variant) == IF variant = "js" THEN "react" ELSE "js"

\* what the comparison of two particles looks at: everything but life
Shape(p) ==
    [ id |-> p.id, x |-> p.x, y |-> p.y, vx |-> p.vx, vy |-> p.vy,
      type |-> p.type, history |-> p.history ]

\* the particles of a store that the long run spawned (the frames before the
\* state picked up are numbered below 0), without their life
Aged(store) == { Shape(store[i]) : i \in { j \in DOMAIN store : store[j].id < 0 } }

LateStoreJs == LateStore("js")

LateStoreReact == LateStore("react")

\* the store of the other implementation after the same frames, run from the
\* same draws of the long run; it stands for that implementation's store in
\* the states no input has been given in, where the source stayed closed and
\* the distance unchanged (what the frames after the long run spawned has an
\* id of 0 or more and is left out of the comparison)
Twin ==
    Frames(IF impl = "js" THEN LateStoreReact ELSE LateStoreJs,
           ticks, Closure(InitialDistanceCm, FALSE, FALSE), Other(impl))

(* C22: run side by side with the same draws and no input, simulator.js and
   the React variant hold, at the end of every tick, the same particles
   (position, velocity, kind, trail; life left aside). *)
C22_SameParticlesInBothImplementations ==
    (lastAction = "tick" /\ inputs = 0) => Aged(particles) = Aged(Twin)

-----------------------------------------------------------------------------
(* C23: the tick that runs next reads the detector distance current at that
   moment (in the React variant the pending frame callback is the one
   registered last, and its closure holds the current distance); its hit
   test uses the rectangle x in [130 + 4d, 160 + 4d] for that distance d,
   and every Photon or BackgroundPhoton of the store, whenever spawned,
   whose post-move position lies in that rectangle is counted and absent
   after the tick. *)
C23_HitTestUsesCurrentDistance ==
    [][lastAction' = "tick" =>
         /\ \A c \in frameQueue :
                /\ Env(c).distanceCm = distanceCm
                /\ c.handle = animationId
         /\ DetectorX(distanceCm) = 130 + 4 * distanceCm
         /\ DetectorX(distanceCm) + DETECTOR_WIDTH = 160 + 4 * distanceCm
         /\ \A id \in Ids(particles) :
                LET p == ById(particles, id)
                IN  (p.type \in PhotonKinds /\ InDetector(PostMove(p), distanceCm)) =>
                        /\ id \notin Ids(particles')
                        /\ counts' > counts]_vars

\* the slider was moved to 0 cm, the shutter closed, and a tick then absorbed
\* a photon at the new detector position (with the detector at the initial
\* 80 cm no photon gets as far as the detector within MaxTicks frames)
C23_Witness ==
    /\ lastAction = "tick"
    /\ distanceCm = 0
    /\ ~sourceOpen
    /\ inputs >= 2
    /\ counts > 0

-----------------------------------------------------------------------------
\* the values a dose sample can publish for the current shutter and distance
CurrentSamples == { NoisyDose(distanceCm, sourceOpen, noise) : noise \in NoiseDraws }

(* C24: until the teardown a dose timer stays active whatever inputs and
   resets arrive; the timer that fires reads the current sourceOpen and
   detector distance, so the value displayed after a dose sample is a noisy
   dose of the current state, and the sample changes neither. *)
C24_DoseSampleUsesCurrentState ==
    [][/\ ~tornDown' => timers' # {}
       /\ lastAction' = "dose" =>
              /\ \A timer \in timers :
                     /\ Env(timer).distanceCm = distanceCm
                     /\ Env(timer).sourceOpen = sourceOpen
              /\ doseRateDisplay' \in CurrentSamples
              /\ distanceCm' = distanceCm
              /\ sourceOpen' = sourceOpen]_vars

\* the detector was moved to the far end and a reset emptied the store of
\* the frames run so far (the two inputs given); the dose sample that
\* followed shows a dose of 150 cm
C24_Witness ==
    /\ lastAction = "dose"
    /\ distanceCm = SliderMax
    /\ sourceOpen
    /\ inputs = 2
    /\ ticks > 0
    /\ particles = << >>
    /\ doseRateDisplay \in CurrentSamples
    /\ doseRateDisplay # InitialDoseRate

-----------------------------------------------------------------------------
\* where a particle was n update passes ago, its velocity unchanged since
Back(p, n) == [x |-> p.x - n * p.vx, y |-> p.y - n * p.vy]

\* the trail of the last Min(10, n) post-move positions of a particle, the
\* oldest first
LastPositions(p, n) ==
    LET len == Min(TrailLength, n)
    IN  [k \in 1..len |-> Back(p, len - k)]

(* C25: between ticks the trail of every particle is the sequence of its last
   min(10, n) post-move positions, oldest first, where n is the number of
   update passes since its spawn (Beta, BackgroundPhoton) or since the pass
   of its transition, in which it lay inside the attenuator (Photon); a
   non-empty trail ends with the current position. *)
C25_TrailIsLastPositions ==
    \A i \in DOMAIN particles :
        LET p == particles[i]
        IN  /\ p.type \in {"beta", "background_photon"} =>
                   p.history = LastPositions(p, Age(p))
            /\ p.type = "photon" =>
                   \E n \in 0..Age(p) :
                       /\ p.history = LastPositions(p, n)
                       /\ InAttenuator(Back(p, n))
                       /\ Age(p) - n \in 1..LatestTransition
            /\ p.history # << >> =>
                   p.history[Len(p.history)] = [x |-> p.x, y |-> p.y]

\* a Photon, ten passes after the one of its transition: its trail is full
\* and holds the ten moves it made as a Photon, none of its moves as a Beta
C25_Witness ==
    /\ lastAction = "tick"
    /\ \E i \in DOMAIN particles :
           /\ particles[i].type = "photon"
           /\ Len(particles[i].history) = TrailLength
           /\ Age(particles[i]) = TrailLength + LatestTransition

-----------------------------------------------------------------------------
(* C26: a reset leaves sourceOpen, the detector distance and the heatmap mode
   as they are, and leaves the pending frame callback and the dose timer
   registered; a change of sourceOpen leaves the particle store, the count
   and the displayed count, the distance and the heatmap mode as they are. *)
C26_ResetAndShutterChangeNothingElse ==
    [][/\ lastAction' = "reset" =>
              /\ sourceOpen' = sourceOpen
              /\ distanceCm' = distanceCm
              /\ showHeatmap' = showHeatmap
              /\ frameQueue' = frameQueue /\ frameQueue # {}
              /\ timers' = timers /\ timers # {}
       /\ sourceOpen' # sourceOpen =>
              /\ particles' = particles
              /\ counts' = counts
              /\ countsShown' = countsShown
              /\ distanceCm' = distanceCm
              /\ showHeatmap' = showHeatmap
              /\ frameQueue' # {}]_vars

\* the shutter was closed with particles in flight, the frames went on and
\* one of them counted a photon spawned before the shutter closed
C26_Witness ==
    /\ ~sourceOpen
    /\ particles # << >>
    /\ lastAction = "tick"
    /\ counts > 0
    /\ \A i \in DOMAIN particles : particles[i].type = "photon"

-----------------------------------------------------------------------------
(* The way of a Beta from the source to the attenuator, for every velocity
   spawnParticle can draw on the grid of positions *)

\* spawnParticle: vx = 6 + random*2 in [6,8), vy = (random-0.5)*2 in [-1,1)
EveryBetaDraw ==
    { [vx |-> vx, vy |-> vy] : vx \in U(6)..(U(8) - 1), vy \in (-U(1))..(U(1) - 1) }

\* the state after the first frame, the source open: the first Beta with any
\* velocity, the others with the slowest
BetaInit ==
    /\ impl \in Impls
    /\ distanceCm = InitialDistanceCm
    /\ sourceOpen = TRUE
    /\ showHeatmap = FALSE
    /\ counts = 0
    /\ countsShown = 0
    /\ \E first \in EveryBetaDraw, rest \in BetaDraws :
           particles = tickStore(<< >>, Closure(InitialDistanceCm, TRUE, FALSE), 0,
                                 [k \in 1..BetasPerTick |-> IF k = 1 THEN first ELSE rest],
                                 << >>, << >>, impl).particles
    /\ rendered = drawScene(particles, FALSE)
    /\ ticks = 1
    /\ bgSpawned = 0
    /\ inputs = 0
    /\ tornDown = FALSE
    /\ lastAction = "tick"
    /\ heatmapPass = NoPass
    /\ explanation = NotAsked
    /\ animationId = 3
    /\ nextHandle = 4
    /\ IF impl = "js"
       THEN /\ doseRateDisplay = InitialDoseRate
            /\ frameQueue = {Callback(animationId, 0, FALSE, FALSE)}
            /\ doseInterval = 2
            /\ timers = {Callback(2, 0, FALSE, FALSE)}
       ELSE /\ \E noise \in NoiseDraws :
                   doseRateDisplay = NoisyDose(InitialDistanceCm, TRUE, noise)
            /\ doseInterval = 1
            /\ timers = {Callback(1, InitialDistanceCm, TRUE, FALSE)}
            /\ frameQueue = {Callback(animationId, InitialDistanceCm, TRUE, FALSE)}

\* the frames, the shutter and the reset
BetaNext ==
    \/ Tick
    \/ SetSourceOpen
    \/ Reset

BetaSpec == BetaInit /\ [][BetaNext]_vars

\* every Beta of the store has made fewer than 5 moves, lies on the source
\* side of the slab, outside the detector and inside the bounds, has life
\* left, and one of its next moves, the 5th since its spawn at the latest,
\* puts it inside the slab rectangle
BetasOnTheirWay ==
    \A i \in DOMAIN particles :
        LET p == particles[i]
        IN  p.type = "beta" =>
                /\ Age(p) \in 1..(LatestTransition - 1)
                /\ p.x < U(PMMA_X)
                /\ ~InDetector(p, distanceCm)
                /\ ~OutOfBounds(p)
                /\ p.life > 0
                /\ \E k \in 1..(LatestTransition - Age(p)) : InAttenuator(Back(p, -k))

(* C27: every Beta is inside the slab rectangle at one of its first 5 update
   passes and is a Photon after that pass; a Beta leaves the store only by a
   reset, never by a tick; no Beta is inside the detector; as only a tick
   with the source open spawns, a store holds no Beta once 5 ticks have run
   with the source closed. *)
C27_NoBetaMissesTheAttenuator ==
    [][/\ BetasOnTheirWay
       /\ BetasOnTheirWay'
       /\ \A id \in Ids(particles) :
              LET p == ById(particles, id)
              IN  p.type = "beta" =>
                      /\ id \notin Ids(particles') => lastAction' = "reset"
                      /\ (lastAction' = "tick" /\ InAttenuator(PostMove(p))) =>
                             /\ id \in Ids(particles')
                             /\ ById(particles', id).type = "photon"
       /\ (lastAction' = "tick" /\ ~sourceOpen) =>
              \A id \in Added : ById(particles', id).type # "beta"]_vars

\* a Beta drawn with vx = 7.5 is a Photon after its 4th pass, next to the
\* slowest ones, still Betas
C27_Witness ==
    /\ lastAction = "tick"
    /\ ticks = LatestTransition - 1
    /\ \E i \in DOMAIN particles : particles[i].type = "photon"
    /\ \E i \in DOMAIN particles : particles[i].type = "beta"

-----------------------------------------------------------------------------
(* C28: in the React variant every particle is removed after finitely many
   ticks. The update pass is a function of the particle and the detector
   distance alone, so a particle that a tick leaves in the store exactly as
   it found it (position, velocity, kind, life and trail) is left so by
   every later tick and never removed: eventual removal needs every tick to
   change every particle it leaves in the store. *)
C28_ReactTicksLeadToRemoval ==
    [][(impl = "react" /\ lastAction' = "tick") =>
           \A id \in Surviving : ById(particles', id) # ById(particles, id)]_vars

-----------------------------------------------------------------------------
(* C29: whatever ticks, dose samples and control inputs have run, at most
   one frame callback is pending and at most one dose interval is active;
   until the teardown there is exactly one of each, the one whose handle the
   program holds (animationId / requestRef.current, doseInterval). *)
C29_OneFrameCallbackOneDoseInterval ==
    /\ Cardinality(frameQueue) <= 1
    /\ Cardinality(timers) <= 1
    /\ ~tornDown =>
           /\ \E c \in frameQueue : c.handle = animationId
           /\ \E t \in timers : t.handle = doseInterval

\* the React variant after a change of the distance, of the shutter and of
\* the heatmap mode, with frames run in between: each change re-registered
\* the frame callback, two of them re-created the dose interval
C29_Witness ==
    /\ impl = "react"
    /\ lastAction = "tick"
    /\ ticks >= 2
    /\ inputs >= 3
    /\ distanceCm # InitialDistanceCm
    /\ ~sourceOpen
    /\ showHeatmap
    /\ frameQueue = {[handle |-> animationId,
                      closure |-> Closure(distanceCm, sourceOpen, showHeatmap)]}
    /\ timers = {Callback(doseInterval, distanceCm, sourceOpen, FALSE)}

====
